---- MODULE Spec2Model ----
(***************************************************************************)
(* A model of the food-analysis application:                               *)
(*   - the POST /api/analyze-food route handler (validation, upstream      *)
(*     call, totals correction pass, error mapping);                       *)
(*   - the widget's reconciler (extraction of meal data from toolOutput).  *)
(*                                                                         *)
(* Numbers are fixed point: an integer n stands for the number n / Scale.  *)
(* With Scale a power of two the sums below are exact in IEEE doubles too. *)
(* A JSON object is a record whose DOMAIN is the set of keys it has; an    *)
(* optional key that is missing is a key outside the DOMAIN.               *)
(***************************************************************************)
EXTENDS Integers, Sequences, FiniteSets, TLC

\* ------------------------------------------------------------------ bounds
\* One unit is 1/Scale (quarters).
Scale == 4
\* Meals plus ingredients in one upstream body.
MaxItems == 4
\* Submissions the web page accepts in one run.
MaxSubmissions == 2

\* --------------------------------------------------------------- data model
Fields == {"calories", "protein", "carbs", "fat"}

Num(whole, parts) == whole * Scale + parts

\* Nutrient objects an upstream model may attach to an ingredient: fractional
\* values, and an object with a zero, a negative value and a key missing.
IngredientNutrients ==
  { [calories |-> Num(0, 1), protein |-> Num(0, 2), carbs |-> Num(1, 0), fat |-> Num(1, 2)],
    [calories |-> Num(1, 1), protein |-> 0, fat |-> 0 - Num(0, 2)] }

\* Ingredients: with a brand, a serving and a nutrients object, or with
\* nothing but a name.
Ingredients ==
  { [name |-> "item", brand |-> "Generic", serving_info |-> "1 cup", nutrients |-> n] :
      n \in IngredientNutrients }
    \cup { [name |-> "item"] }

\* Totals an upstream model may report for a meal or for the day: far from
\* any sum of the ingredients, and fractional.
WholeTotals ==
  [calories |-> Num(100, 0), protein |-> Num(2, 0), carbs |-> 0, fat |-> Num(1, 0)]
FractionalTotals ==
  [calories |-> Num(0, 2), protein |-> Num(1, 2), carbs |-> Num(0, 1), fat |-> Num(0, 3)]
ReportedTotals == { WholeTotals, FractionalTotals }

RECURSIVE IngredientLists(_)
IngredientLists(n) ==
  IF n = 0 THEN { <<>> }
  ELSE { <<i>> \o l : i \in Ingredients, l \in IngredientLists(n - 1) }

\* Meals without ingredients: the key missing or the list empty, with a
\* fractional total, a whole one or none.
EmptyMeals ==
  { [meal_name |-> "Meal", total_nutrients |-> WholeTotals],
    [meal_name |-> "Meal", ingredients |-> <<>>, total_nutrients |-> FractionalTotals],
    [meal_name |-> "Meal", ingredients |-> <<>>] }

\* The meals that count w items: the meal itself and its w - 1 ingredients.
\* A meal with ingredients comes with a reported total or without one.
MealsOfWeight(w) ==
  IF w = 1 THEN EmptyMeals
  ELSE { [meal_name |-> "Meal", ingredients |-> l] : l \in IngredientLists(w - 1) }
         \cup { [meal_name |-> "Meal", meal_size |-> "1 bowl", ingredients |-> l,
                  total_nutrients |-> WholeTotals] :
                  l \in IngredientLists(w - 1) }

RECURSIVE MealListsOfWeight(_)
MealListsOfWeight(w) ==
  IF w = 0 THEN { <<>> }
  ELSE UNION { { <<m>> \o l : m \in MealsOfWeight(k), l \in MealListsOfWeight(w - k) }
               : k \in 1..w }

MealLists == UNION { MealListsOfWeight(w) : w \in 0..MaxItems }

\* ----------------------------------------------- the route handler's inputs
\* What request.json() yields: a rejection (the body is not JSON), null, or an
\* object with or without a foodDescription.
RequestBodies ==
  { [json |-> "invalid"], [json |-> "null"],
    [json |-> "object", value |-> [other |-> "x"]],
    [json |-> "object", value |-> [foodDescription |-> ""]],
    [json |-> "object", value |-> [foodDescription |-> "100g blueberries"]] }

\* process.env.OPENAI_API_KEY: "" stands for unset (or empty).
ApiKeys == { "", "sk-key" }

\* Values a failing await may throw.
Thrown ==
  { [isError |-> TRUE, message |-> "fetch failed"],
    [isError |-> FALSE, message |-> "not an Error"] }

SyntaxError == [isError |-> TRUE, message |-> "Unexpected token in JSON"]
TypeError == [isError |-> TRUE, message |-> "Cannot read properties"]

FailureStatuses == { 400, 401, 429, 500, 503 }

\* Bodies of a non-2xx upstream response.
ErrorBodies ==
  { [json |-> "invalid"], [json |-> "null"],
    [json |-> "object", value |-> [other |-> "x"]],
    [json |-> "object", value |-> [error |-> [message |-> "Rate limit reached"]]],
    [json |-> "object", value |-> [error |-> [message |-> ""]]] }

\* What the model put in choices[0].message.content, by what JSON.parse makes of it.
\* mealsIsArray is Array.isArray(data.loggedMeals); a loggedMeals that is no array
\* (an object without a map method) is carried as a one-entry list.
Contents ==
  { [parse |-> "invalid"], [parse |-> "null"] }
    \cup { [parse |-> "object", mealsIsArray |-> TRUE, data |-> [loggedMeals |-> <<>>]] }
    \cup { [parse |-> "object", mealsIsArray |-> FALSE,
            data |-> [dailyTotals |-> t]] : t \in ReportedTotals }
    \cup { [parse |-> "object", mealsIsArray |-> FALSE,
            data |-> [dailyTotals |-> t, loggedMeals |-> <<[text |-> "none"]>>]] : t \in ReportedTotals }
    \cup { [parse |-> "object", mealsIsArray |-> TRUE,
            data |-> [dailyTotals |-> t, loggedMeals |-> l]] : t \in ReportedTotals, l \in MealLists }

\* Outcomes of the fetch of the upstream completion API.
UpstreamOutcomes ==
  { [kind |-> "reject", thrown |-> t] : t \in Thrown }
    \cup { [kind |-> "status", status |-> s, body |-> b] : s \in FailureStatuses, b \in ErrorBodies }
    \cup { [kind |-> "ok", body |-> [json |-> "invalid"]],
           [kind |-> "ok", body |-> [json |-> "object", value |-> [other |-> "x"]]] }
    \cup { [kind |-> "ok", body |-> [json |-> "object", value |-> [choices |-> c]]] : c \in Contents }

\* ------------------------------------------------------------------- state
\* The route handler: where POST stands, its environment, its request, what the
\* fetch settled with, its response, and the upstream calls made for the request.
VARIABLES pc, apiKey, req, upstream, resp, calls

\* The widget: the payload the host delivered, the isLoading state, whether the
\* effect has yet to run for the last render, what the last render showed, and
\* the showBreakdown state of each MealCard that is mounted.
VARIABLES toolOutput, isLoading, effectPending, rendered, showBreakdown

\* The web page: its messages, input and isLoading states, the fetch calls
\* that have not settled yet, the fetch calls made so far, and what
\* handleSubmit did with the last submit event, and for each message the
\* showBreakdown state of each MealCard it is rendered with.
VARIABLES messages, input, pageIsLoading, pending, requests, lastSubmit, messageCards

endpointVars == <<pc, apiKey, req, upstream, resp, calls>>
widgetVars == <<toolOutput, isLoading, effectPending, rendered, showBreakdown>>
pageVars == <<messages, input, pageIsLoading, pending, requests, lastSubmit, messageCards>>
vars == <<endpointVars, widgetVars, pageVars>>

NoRequest == [json |-> "none"]
NoUpstream == [kind |-> "none"]
NoResponse == [status |-> 0, body |-> [none |-> TRUE]]

\* ----------------------------------------------------- the correction pass
\* Math.round: the nearest integer, a tie going up.
MathRound(x) == ((2 * x + Scale) \div (2 * Scale)) * Scale

\* (o[key]?.[f] || 0)
ValueOrZero(o, key, f) ==
  IF key \in DOMAIN o /\ f \in DOMAIN o[key] /\ o[key][f] # 0 THEN o[key][f] ELSE 0

\* items.reduce((acc, o) => ({ f: acc.f + (o[key]?.f || 0), ... }), acc)
RECURSIVE Reduce(_, _, _)
Reduce(items, key, acc) ==
  IF items = <<>> THEN acc
  ELSE Reduce(Tail(items), key, [f \in Fields |-> acc[f] + ValueOrZero(Head(items), key, f)])

ZeroTotals == [f \in Fields |-> 0]

RoundTotals(t) == [f \in Fields |-> MathRound(t[f])]

\* A reduce seeded with the reported total instead of zeros.
calculatedTotalsSeeded(meal) ==
  RoundTotals(Reduce(meal.ingredients, "nutrients",
                     [f \in Fields |-> ValueOrZero(meal, "total_nutrients", f)]))

\* Each ingredient's value rounded before it is added.
RECURSIVE ReduceRounded(_, _, _)
ReduceRounded(items, key, acc) ==
  IF items = <<>> THEN acc
  ELSE ReduceRounded(Tail(items), key,
         [f \in Fields |-> acc[f] + MathRound(ValueOrZero(Head(items), key, f))])

calculatedTotalsRoundedEach(meal) == ReduceRounded(meal.ingredients, "nutrients", ZeroTotals)

calculatedTotals(meal) == RoundTotals(Reduce(meal.ingredients, "nutrients", ZeroTotals))

HasIngredients(meal) == "ingredients" \in DOMAIN meal /\ Len(meal.ingredients) > 0

\* The meal returned as the upstream reported it.
correctedMealTrusting(meal) == meal

\* The length test dropped: an empty ingredient list is summed too.
correctedMealAnyList(meal) ==
  IF "ingredients" \in DOMAIN meal
  THEN [k \in DOMAIN meal \cup {"total_nutrients"} |->
          IF k = "total_nutrients" THEN calculatedTotals(meal) ELSE meal[k]]
  ELSE meal

correctedMeal(meal) ==
  IF HasIngredients(meal)
  THEN [k \in DOMAIN meal \cup {"total_nutrients"} |->
          IF k = "total_nutrients" THEN calculatedTotals(meal) ELSE meal[k]]
  ELSE meal

\* The meals corrected and returned last first.
correctedMealsReversed(loggedMeals) ==
  [i \in 1..Len(loggedMeals) |-> correctedMeal(loggedMeals[Len(loggedMeals) + 1 - i])]

correctedMeals(loggedMeals) ==
  [i \in 1..Len(loggedMeals) |-> correctedMeal(loggedMeals[i])]

\* The daily totals left unrounded.
correctedDailyTotalsUnrounded(meals) == Reduce(meals, "total_nutrients", ZeroTotals)

correctedDailyTotals(meals) == RoundTotals(Reduce(meals, "total_nutrients", ZeroTotals))

Correct(data) ==
  [dailyTotals |-> correctedDailyTotals(correctedMeals(data.loggedMeals)),
   loggedMeals |-> correctedMeals(data.loggedMeals)]

\* -------------------------------------------------------- the route handler
GenericMessage == "Failed to analyze food. Please try again."

\* NextResponse.json(body, { status })
Json(body, status) == [status |-> status, body |-> body]

\* The catch block without its status option.
CaughtDefaultStatus(thrown) ==
  Json([error |-> IF thrown.isError THEN thrown.message ELSE GenericMessage], 200)

\* The catch block throwing on: POST returns no response.
CaughtRethrown(thrown) == NoResponse

\* The catch block.
Caught(thrown) ==
  Json([error |-> IF thrown.isError THEN thrown.message ELSE GenericMessage], 500)

\* errorData.error?.message || "Failed to process food data"
UpstreamErrorMessage(errorData) ==
  IF "error" \in DOMAIN errorData /\ "message" \in DOMAIN errorData.error
       /\ errorData.error.message # ""
  THEN errorData.error.message
  ELSE "Failed to process food data"

\* The !response.ok branch answering 500 whatever the upstream status.
NotOkAlways500(u) ==
  CASE u.body.json = "invalid" -> Caught(SyntaxError)
    [] u.body.json = "null" -> Caught(TypeError)
    [] OTHER -> Json([error |-> UpstreamErrorMessage(u.body.value)], 500)

\* The branch taken when !response.ok.
NotOk(u) ==
  CASE u.body.json = "invalid" -> Caught(SyntaxError)
    [] u.body.json = "null" -> Caught(TypeError)
    [] OTHER -> Json([error |-> UpstreamErrorMessage(u.body.value)], u.status)

\* The validation with && in place of ||: only a body lacking both keys is refused.
ParseAndCorrectLax(content) ==
  CASE content.parse = "invalid" -> Caught(SyntaxError)
    [] content.parse = "null" -> Caught(TypeError)
    [] "dailyTotals" \notin DOMAIN content.data /\ "loggedMeals" \notin DOMAIN content.data ->
         Json([error |-> "Invalid response format from AI"], 500)
    [] "loggedMeals" \notin DOMAIN content.data -> Caught(TypeError)
    [] ~content.mealsIsArray -> Caught(TypeError)
    [] OTHER -> Json(Correct(content.data), 200)

\* The validation refusing an empty loggedMeals as well.
ParseAndCorrectRefusingEmpty(content) ==
  CASE content.parse = "invalid" -> Caught(SyntaxError)
    [] content.parse = "null" -> Caught(TypeError)
    [] "dailyTotals" \notin DOMAIN content.data \/ "loggedMeals" \notin DOMAIN content.data ->
         Json([error |-> "Invalid response format from AI"], 500)
    [] content.data.loggedMeals = <<>> ->
         Json([error |-> "Invalid response format from AI"], 500)
    [] ~content.mealsIsArray -> Caught(TypeError)
    [] OTHER -> Json(Correct(content.data), 200)

\* JSON.parse(content), validation and the correction pass.
ParseAndCorrect(content) ==
  CASE content.parse = "invalid" -> Caught(SyntaxError)
    [] content.parse = "null" -> Caught(TypeError)
    [] "dailyTotals" \notin DOMAIN content.data \/ "loggedMeals" \notin DOMAIN content.data ->
         Json([error |-> "Invalid response format from AI"], 500)
    [] ~content.mealsIsArray -> Caught(TypeError)
    [] OTHER -> Json(Correct(content.data), 200)

\* Everything after the fetch settles.
AfterFetch(u) ==
  CASE u.kind = "reject" -> Caught(u.thrown)
    [] u.kind = "status" -> NotOk(u)
    [] u.body.json = "invalid" -> Caught(SyntaxError)
    [] "choices" \notin DOMAIN u.body.value -> Caught(TypeError)
    [] OTHER -> ParseAndCorrect(u.body.value.choices)

\* The second POST of route.ts after JSON.parse(content): the same validation,
\* then the parsed data returned as it is.
ParseAndReturn(content) ==
  CASE content.parse = "invalid" -> Caught(SyntaxError)
    [] content.parse = "null" -> Caught(TypeError)
    [] "dailyTotals" \notin DOMAIN content.data \/ "loggedMeals" \notin DOMAIN content.data ->
         Json([error |-> "Invalid response format from AI"], 500)
    [] OTHER -> Json(content.data, 200)

\* Everything after the fetch settles, in the second POST.
AfterFetchSecond(u) ==
  CASE u.kind = "reject" -> Caught(u.thrown)
    [] u.kind = "status" -> NotOk(u)
    [] u.body.json = "invalid" -> Caught(SyntaxError)
    [] "choices" \notin DOMAIN u.body.value -> Caught(TypeError)
    [] OTHER -> ParseAndReturn(u.body.value.choices)

\* The test for a missing key only: an empty string passes.
FoodDescriptionUndefined(body) == "foodDescription" \notin DOMAIN body.value

FoodDescriptionMissing(body) ==
  "foodDescription" \notin DOMAIN body.value \/ body.value.foodDescription = ""

\* The handler without its credential check.
BeforeFetchNoKeyCheck(body, key) ==
  CASE body.json = "invalid" -> Caught(SyntaxError)
    [] body.json = "null" -> Caught(TypeError)
    [] FoodDescriptionMissing(body) -> Json([error |-> "Food description is required"], 400)
    [] OTHER -> NoResponse

\* The handler with the credential check ahead of the foodDescription check.
BeforeFetchKeyFirst(body, key) ==
  CASE body.json = "invalid" -> Caught(SyntaxError)
    [] body.json = "null" -> Caught(TypeError)
    [] key = "" -> Json([error |-> "OpenAI API key not configured"], 500)
    [] FoodDescriptionMissing(body) -> Json([error |-> "Food description is required"], 400)
    [] OTHER -> NoResponse

\* The handler up to the fetch: the response it returns at once, or NoResponse
\* when it goes on to call the upstream.
BeforeFetch(body, key) ==
  CASE body.json = "invalid" -> Caught(SyntaxError)
    [] body.json = "null" -> Caught(TypeError)
    [] FoodDescriptionMissing(body) -> Json([error |-> "Food description is required"], 400)
    [] key = "" -> Json([error |-> "OpenAI API key not configured"], 500)
    [] OTHER -> NoResponse


\* --------------------------------------------------------------- the widget
\* In a payload every value is a record: an object is the record of its keys,
\* null is Null and an array is List(its elements).
Null == [null |-> TRUE]
List(s) == [array |-> s]

\* o?.[k] is neither undefined nor null, for a key holding an object or null.
HasObject(o, k) == o # Null /\ k \in DOMAIN o /\ o[k] # Null

SampleMeal ==
  [meal_name |-> "Meal",
   ingredients |-> << [name |-> "item", nutrients |-> [calories |-> Num(0, 2)]],
                      [name |-> "item", nutrients |-> [calories |-> 0]] >>,
   total_nutrients |-> [calories |-> Num(100, 0), protein |-> Num(2, 0),
                        carbs |-> 0, fat |-> Num(1, 0)]]

\* A meal of one ingredient.
PlainMeal ==
  [meal_name |-> "Snack",
   ingredients |-> << [name |-> "item", nutrients |-> [calories |-> Num(0, 2)]] >>,
   total_nutrients |-> [calories |-> Num(1, 0), protein |-> 0, carbs |-> 0, fat |-> 0]]

\* Objects a payload may be, or may carry under its result key.
MealDataObjects ==
  { [dailyTotals |-> ZeroTotals, loggedMeals |-> List(<<SampleMeal>>)],
    [foodDescription |-> "pizza", dailyTotals |-> ZeroTotals, loggedMeals |-> List(<<>>)],
    [foodDescription |-> "pizza", dailyTotals |-> ZeroTotals, loggedMeals |-> Null],
    [foodDescription |-> "pizza"],
    [error |-> "boom"],
    [error |-> "boom", loggedMeals |-> List(<<SampleMeal, SampleMeal>>)],
    [other |-> "x"] }

\* Values a structuredContent key may hold.
StructuredContents ==
  { [dailyTotals |-> ZeroTotals, loggedMeals |-> List(<<SampleMeal>>)],
    [foodDescription |-> "pizza", dailyTotals |-> ZeroTotals, loggedMeals |-> List(<<>>)],
    [error |-> "failed", loggedMeals |-> List(<<SampleMeal>>)],
    [error |-> "", loggedMeals |-> List(<<>>)],
    Null }

\* o with key k set to v.
With(o, k, v) == [x \in DOMAIN o \cup {k} |-> IF x = k THEN v ELSE o[x]]

\* Values a result key may hold.
ResultValues ==
  MealDataObjects \cup {Null}
    \cup { With(o, "structuredContent", sc) :
             o \in { [other |-> "x"], [loggedMeals |-> List(<<SampleMeal>>)] },
             sc \in StructuredContents }

\* Objects that carry a result key or a structuredContent key besides their own.
Wrappers ==
  { [other |-> "x"],
    [error |-> "boom"],
    [dailyTotals |-> ZeroTotals, loggedMeals |-> List(<<SampleMeal>>)],
    [foodDescription |-> "pizza", dailyTotals |-> ZeroTotals, loggedMeals |-> List(<<>>)] }

\* Further objects a payload may be: two meals, the first of one ingredient,
\* and a description with null for the totals and for the meals.
UnwrappedObjects ==
  { [dailyTotals |-> ZeroTotals, loggedMeals |-> List(<<PlainMeal, SampleMeal>>)],
    [foodDescription |-> "pizza", dailyTotals |-> Null, loggedMeals |-> Null] }

\* The payloads the host may deliver: null, or an object with or without a
\* result key and a structuredContent key.
Payloads ==
  LET withResult == MealDataObjects
        \cup { With(o, "result", r) : o \in Wrappers, r \in ResultValues }
  IN {Null} \cup withResult \cup UnwrappedObjects
       \cup { With(o, "structuredContent", sc) : o \in withResult, sc \in StructuredContents }

\* The extraction with the top-level structuredContent looked at first.
mealDataTopLevelFirst(out) ==
  IF HasObject(out, "structuredContent") THEN out.structuredContent
  ELSE IF HasObject(out, "result") /\ HasObject(out.result, "structuredContent")
    THEN out.result.structuredContent
  ELSE IF HasObject(out, "result") THEN out.result
  ELSE IF out # Null /\ ("loggedMeals" \in DOMAIN out \/ "dailyTotals" \in DOMAIN out) THEN out
  ELSE Null

\* let mealData = ...: the first of the four shapes that is there, or null.
mealData(out) ==
  IF HasObject(out, "result") /\ HasObject(out.result, "structuredContent")
    THEN out.result.structuredContent
  ELSE IF HasObject(out, "structuredContent") THEN out.structuredContent
  ELSE IF HasObject(out, "result") THEN out.result
  ELSE IF out # Null /\ ("loggedMeals" \in DOMAIN out \/ "dailyTotals" \in DOMAIN out) THEN out
  ELSE Null

\* o?.error when it is a non-empty string, "" when it is falsy.
ErrorOf(o) == IF o # Null /\ "error" \in DOMAIN o THEN o.error ELSE ""

\* const error = mealData?.error || toolOutput?.error
error(out) == IF ErrorOf(mealData(out)) # "" THEN ErrorOf(mealData(out)) ELSE ErrorOf(out)

\* const meals = mealData?.loggedMeals || []
meals(out) ==
  IF HasObject(mealData(out), "loggedMeals") THEN mealData(out).loggedMeals.array ELSE <<>>

\* The effect with the null payload taken for a payload without data.
effectLoadingNullIdle(out) ==
  IF Len(meals(out)) > 0 THEN FALSE
  ELSE IF out = Null THEN FALSE
  ELSE LET hasFoodDescription == "foodDescription" \in DOMAIN out
           hasMeals == HasObject(out, "loggedMeals") /\ Len(out.loggedMeals.array) > 0
       IN  hasFoodDescription /\ ~hasMeals

\* The value the effect passes to setIsLoading.
effectLoading(out) ==
  IF Len(meals(out)) > 0 THEN FALSE
  ELSE IF out = Null THEN TRUE
  ELSE LET hasFoodDescription == "foodDescription" \in DOMAIN out
           hasMeals == HasObject(out, "loggedMeals") /\ Len(out.loggedMeals.array) > 0
       IN  hasFoodDescription /\ ~hasMeals

\* Macros without its "No meal data available" return.
viewWithoutEmpty(out, loading) ==
  IF error(out) # "" THEN "error"
  ELSE IF loading THEN "loading"
  ELSE "cards"

\* Which of the four returns of Macros a render takes.
view(out, loading) ==
  IF error(out) # "" THEN "error"
  ELSE IF loading THEN "loading"
  ELSE IF Len(meals(out)) = 0 THEN "empty"
  ELSE "cards"

\* The four totals a MealCard shows: Math.round of the meal's total_nutrients.
shownTotals(meal) == RoundTotals(meal.total_nutrients)

\* One render of Macros: the extracted object, the meal list, the return
\* taken and, when it is the cards, the totals each card shows.
Render(out, loading) ==
  [mealData |-> mealData(out), meals |-> meals(out), view |-> view(out, loading),
   cards |-> IF view(out, loading) = "cards"
             THEN [i \in 1..Len(meals(out)) |-> shownTotals(meals(out)[i])]
             ELSE <<>>]

\* ---------------------------------------------------------------- MealCard
\* const hasMultipleIngredients = meal.ingredients.length > 1
hasMultipleIngredients(meal) == Len(meal.ingredients) > 1

\* Whether the card renders its toggle button.
toggleShown(meal) == hasMultipleIngredients(meal)

\* Whether the card renders its ingredient breakdown.
breakdownShown(meal, show) == show /\ hasMultipleIngredients(meal)

\* The cards sharing one showBreakdown state.
toggledShared(shows, i) == [j \in 1..Len(shows) |-> ~shows[i]]

\* onClick={() => setShowBreakdown(!showBreakdown)} of the i-th card: the
\* state is the card's own.
toggled(shows, i) == [shows EXCEPT ![i] = ~shows[i]]

\* useState(false) of each of n cards that mount.
mountedCards(n) == [i \in 1..n |-> FALSE]

\* The cards of Macros after a render: a card whose key, the meal's index, was
\* there before keeps its state, a new one mounts, and all unmount with a
\* return other than the cards.
cardStates(shows, r) ==
  IF r.view = "cards"
  THEN [i \in 1..Len(r.meals) |-> IF i <= Len(shows) THEN shows[i] ELSE FALSE]
  ELSE <<>>

\* ------------------------------------------------------------- the MCP tool
\* The foodDescription arguments the tool is called with.
ToolInputs == {"pizza", "2 eggs", ""}

\* The structuredContent the earlier analyze_food handler returns from its try
\* block: the description, and null for the totals and for the meals.
analyzeFoodEarlier(foodDescription) ==
  [structuredContent |->
     [foodDescription |-> foodDescription, dailyTotals |-> Null, loggedMeals |-> Null]]

\* The tool answering with a meal of its own.
analyzeFoodAnswering(foodDescription) ==
  [structuredContent |->
     [foodDescription |-> foodDescription, dailyTotals |-> ZeroTotals,
      loggedMeals |-> List(<<SampleMeal>>)]]

\* The structuredContent the analyze_food handler returns from its try block:
\* the description, totals of 0 and an empty meal list.
analyzeFood(foodDescription) ==
  [structuredContent |->
     [foodDescription |-> foodDescription, dailyTotals |-> ZeroTotals,
      loggedMeals |-> List(<<>>)]]

\* The structuredContent of the analyze_food tool's catch block.
analyzeFoodCaught(thrown) ==
  [structuredContent |->
     [error |-> IF thrown.isError THEN thrown.message ELSE GenericMessage]]

\* ------------------------------------------------------------- the web page
\* String.prototype.trim, for strings whose whitespace is the space.
RECURSIVE TrimStart(_)
TrimStart(s) == IF Len(s) > 0 /\ Head(s) = " " THEN TrimStart(Tail(s)) ELSE s

RECURSIVE TrimEnd(_)
TrimEnd(s) ==
  IF Len(s) > 0 /\ SubSeq(s, Len(s), Len(s)) = " "
  THEN TrimEnd(SubSeq(s, 1, Len(s) - 1))
  ELSE s

Trim(s) == TrimEnd(TrimStart(s))

\* What the user may leave in the textarea.
Texts == { "", " ", " 2 eggs " }

\* The early return with the input tested untrimmed.
submitReturnsEarlyUntrimmed(inp, loading) == inp = "" \/ loading

\* if (!input.trim() || isLoading) return;
submitReturnsEarly(inp, loading) == Trim(inp) = "" \/ loading

userMessage(inp) == [role |-> "user", content |-> Trim(inp)]

\* The three state updates of an accepted submission, without the third.
submitUpdatesNotLoading(msgs, inp) ==
  [messages |-> Append(msgs, userMessage(inp)), input |-> "", isLoading |-> FALSE]

\* setMessages([...prev, userMessage]); setInput(""); setIsLoading(true)
submitUpdates(msgs, inp) ==
  [messages |-> Append(msgs, userMessage(inp)), input |-> "", isLoading |-> TRUE]

\* A fetch call that has not settled: the description it sent, how far it
\* is, and the response once there is one.
NoFetchResponse == [ok |-> FALSE, json |-> "none", data |-> Null]
Sent(fd) == [fd |-> fd, stage |-> "sent", response |-> NoFetchResponse]

\* The request the fetch call sends to the route handler.
RequestOf(p) == [json |-> "object", value |-> [foodDescription |-> p.fd]]

\* The Response fetch resolves with for the route handler's answer r.
FetchResponse(r) ==
  [ok |-> r.status >= 200 /\ r.status <= 299, json |-> "value", data |-> r.body]

\* Responses that do not come from the route handler: a body that is not
\* JSON, and a JSON null, each with a non-2xx status, and a 2xx JSON null.
GatewayResponses ==
  { [ok |-> FALSE, json |-> "invalid", data |-> Null],
    [ok |-> FALSE, json |-> "value", data |-> Null],
    [ok |-> TRUE, json |-> "value", data |-> Null] }

\* The throw of the !response.ok branch with the body's error left out.
ThrownNotOkGeneric(data) ==
  IF data = Null THEN TypeError
  ELSE [isError |-> TRUE, message |-> "Failed to analyze food"]

\* throw new Error(data.error || "Failed to analyze food")
ThrownNotOk(data) ==
  IF data = Null THEN TypeError
  ELSE [isError |-> TRUE,
        message |-> IF "error" \in DOMAIN data /\ data.error # ""
                    THEN data.error ELSE "Failed to analyze food"]

assistantMessage(fd, data) ==
  [role |-> "assistant", content |-> "Analyzed: " \o fd, mealData |-> data]

\* The message the catch block builds.
errorMessage(thrown) ==
  [role |-> "assistant",
   content |-> "Error: " \o (IF thrown.isError THEN thrown.message ELSE GenericMessage),
   mealData |-> [error |-> IF thrown.isError THEN thrown.message
                           ELSE "Failed to analyze food"]]

\* The message handleSubmit appends once response.json() has settled.
Completed(fd, r) ==
  IF r.json = "invalid" THEN errorMessage(SyntaxError)
  ELSE IF ~r.ok THEN errorMessage(ThrownNotOk(r.data))
  ELSE assistantMessage(fd, r.data)

\* The end of handleSubmit with the message lost.
settleUpdatesWithoutMessage(msgs, m) == [messages |-> msgs, isLoading |-> FALSE]

\* The end of handleSubmit without its finally block.
settleUpdatesStillLoading(msgs, m) == [messages |-> Append(msgs, m), isLoading |-> TRUE]

\* setMessages([...prev, message]) in try or catch; setIsLoading(false) in finally
settleUpdates(msgs, m) == [messages |-> Append(msgs, m), isLoading |-> FALSE]

\* The cards a message is rendered with when it mounts.
cardsOfMessage(m) ==
  IF m.role = "assistant" /\ m.mealData # Null
     /\ ~("error" \in DOMAIN m.mealData /\ m.mealData.error # "")
     /\ "loggedMeals" \in DOMAIN m.mealData
  THEN mountedCards(Len(m.mealData.loggedMeals))
  ELSE <<>>

\* The cards of the page after a render: those of a message that was there
\* before, its key being its id, keep their state, and those of a new message
\* mount.
messageCardStates(msgs, cards) ==
  [k \in 1..Len(msgs) |-> IF k <= Len(cards) THEN cards[k] ELSE cardsOfMessage(msgs[k])]

\* pending without its i-th entry.
Remove(seq, i) == SubSeq(seq, 1, i - 1) \o SubSeq(seq, i + 1, Len(seq))

\* What an assistant message is rendered as, with the error test dropped.
MessageViewWithoutError(m) ==
  IF m.role = "user" THEN "user"
  ELSE IF m.mealData # Null /\ "loggedMeals" \in DOMAIN m.mealData THEN "cards"
  ELSE "content"

\* What a message is rendered as: the user's bubble, the error panel, the
\* meal cards, or the content bubble.
MessageView(m) ==
  IF m.role = "user" THEN "user"
  ELSE IF m.mealData # Null /\ "error" \in DOMAIN m.mealData /\ m.mealData.error # ""
    THEN "error"
  ELSE IF m.mealData # Null /\ "loggedMeals" \in DOMAIN m.mealData THEN "cards"
  ELSE "content"

\* Outcomes of the upstream fetch in the runs of the page against the route
\* handler: a thrown Error, a thrown value that is no Error, a 429, a body
\* that is not JSON, a content without dailyTotals, and a well-formed content.
AppUpstreamOutcomes ==
  { [kind |-> "reject", thrown |-> t] : t \in Thrown }
    \cup { [kind |-> "status", status |-> 429,
            body |-> [json |-> "object",
                      value |-> [error |-> [message |-> "Rate limit reached"]]]],
           [kind |-> "ok", body |-> [json |-> "invalid"]],
           [kind |-> "ok",
            body |-> [json |-> "object",
                      value |-> [choices |-> [parse |-> "object", mealsIsArray |-> TRUE,
                                              data |-> [loggedMeals |-> <<>>]]]]],
           [kind |-> "ok",
            body |-> [json |-> "object",
                      value |-> [choices |->
                        [parse |-> "object", mealsIsArray |-> TRUE,
                         data |-> [dailyTotals |-> WholeTotals,
                                   loggedMeals |->
                                     << [meal_name |-> "Meal",
                                         ingredients |-> << [name |-> "item"] >>,
                                         total_nutrients |-> WholeTotals],
                                        [meal_name |-> "Bowl",
                                         ingredients |->
                                           << [name |-> "rice", nutrients |-> WholeTotals],
                                              [name |-> "egg", nutrients |-> WholeTotals] >>,
                                         total_nutrients |-> WholeTotals] >>]]]]] }

\* ------------------------------------------------------------------ actions
Init ==
  /\ pc = "idle"
  /\ apiKey \in ApiKeys
  /\ req = NoRequest
  /\ upstream = NoUpstream
  /\ resp = NoResponse
  /\ calls = 0
  /\ toolOutput = Null
  /\ isLoading = TRUE
  /\ effectPending = TRUE
  /\ rendered = Render(Null, TRUE)
  /\ showBreakdown = <<>>
  /\ messages = <<>>
  /\ input = ""
  /\ pageIsLoading = FALSE
  /\ pending = <<>>
  /\ requests = 0
  /\ lastSubmit = "none"
  /\ messageCards = <<>>

\* The fetch calls POST makes for a request, with one retry.
fetchCallsWithRetry(body, key) == IF BeforeFetch(body, key) = NoResponse THEN 2 ELSE 0

\* The fetch calls POST makes for a request: the one await fetch, if POST
\* gets that far.
fetchCalls(body, key) == IF BeforeFetch(body, key) = NoResponse THEN 1 ELSE 0

\* POST runs on a request to its first return or to the fetch.
Handle(body) ==
  /\ pc \in {"idle", "done"}
  /\ req' = body
  /\ upstream' = NoUpstream
  /\ resp' = BeforeFetch(body, apiKey)
  /\ pc' = IF BeforeFetch(body, apiKey) = NoResponse THEN "fetching" ELSE "done"
  /\ calls' = fetchCalls(body, apiKey)
  /\ UNCHANGED apiKey

\* The fetch settles, in one of the outcomes, and POST runs to its return.
SettleWith(outcomes) ==
  /\ pc = "fetching"
  /\ \E u \in outcomes :
       /\ upstream' = u
       /\ resp' = AfterFetch(u)
  /\ pc' = "done"
  /\ UNCHANGED <<apiKey, req, calls>>

\* A request arrives and POST runs to its first return or to the fetch.
Post(body) == Handle(body) /\ UNCHANGED <<widgetVars, pageVars>>

\* The fetch settles, in one of its outcomes, and POST runs to its return.
FetchSettles == SettleWith(UpstreamOutcomes) /\ UNCHANGED <<widgetVars, pageVars>>

EndpointNext ==
  \/ \E body \in RequestBodies : Post(body)
  \/ FetchSettles

\* A request arrives at the second POST of route.ts, whose checks before the
\* fetch are those of the first.
PostSecond(body) ==
  /\ pc \in {"idle", "done"}
  /\ req' = body
  /\ upstream' = NoUpstream
  /\ resp' = BeforeFetch(body, apiKey)
  /\ pc' = IF BeforeFetch(body, apiKey) = NoResponse THEN "fetchingSecond" ELSE "done"
  /\ calls' = fetchCalls(body, apiKey)
  /\ UNCHANGED <<apiKey, widgetVars, pageVars>>

\* The fetch of the second POST settles and it runs to its return.
FetchSettlesSecond ==
  /\ pc = "fetchingSecond"
  /\ \E u \in UpstreamOutcomes :
       /\ upstream' = u
       /\ resp' = AfterFetchSecond(u)
  /\ pc' = "done"
  /\ UNCHANGED <<apiKey, req, calls, widgetVars, pageVars>>

SecondNext ==
  \/ \E body \in RequestBodies : PostSecond(body)
  \/ FetchSettlesSecond

\* The host delivers a payload: useWidgetProps returns it and Macros renders
\* with the isLoading it has; the effect is due, its dependency having changed.
Deliver(out) ==
  /\ toolOutput' = out
  /\ effectPending' = TRUE
  /\ rendered' = Render(out, isLoading)
  /\ showBreakdown' = cardStates(showBreakdown, Render(out, isLoading))
  /\ UNCHANGED <<isLoading, endpointVars, pageVars>>

\* The effect runs and Macros renders again with the isLoading it set.
Effect ==
  /\ effectPending
  /\ isLoading' = effectLoading(toolOutput)
  /\ effectPending' = FALSE
  /\ rendered' = Render(toolOutput, effectLoading(toolOutput))
  /\ showBreakdown' = cardStates(showBreakdown, Render(toolOutput, effectLoading(toolOutput)))
  /\ UNCHANGED <<toolOutput, endpointVars, pageVars>>

\* The user clicks the toggle button of the i-th card of the widget, which is
\* there for a meal of several ingredients.
ToggleBreakdown(i) ==
  /\ ~effectPending
  /\ rendered.view = "cards"
  /\ toggleShown(rendered.meals[i])
  /\ showBreakdown' = toggled(showBreakdown, i)
  /\ UNCHANGED <<toolOutput, isLoading, effectPending, rendered, endpointVars, pageVars>>

WidgetNext ==
  \/ \E out \in Payloads : Deliver(out)
  \/ Effect
  \/ \E i \in 1..Len(showBreakdown) : ToggleBreakdown(i)

\* The user edits the textarea, which is disabled while isLoading.
Type(text) ==
  /\ ~pageIsLoading
  /\ input' = text
  /\ UNCHANGED <<messages, pageIsLoading, pending, requests, lastSubmit, messageCards,
                 endpointVars, widgetVars>>

\* handleSubmit up to its await fetch: an early return, or the user's message
\* appended, the input cleared, isLoading set and the request sent.
handleSubmit ==
  IF submitReturnsEarly(input, pageIsLoading)
  THEN /\ lastSubmit' = "ignored"
       /\ UNCHANGED <<messages, input, pageIsLoading, pending, requests, messageCards>>
  ELSE /\ requests < MaxSubmissions
       /\ messages' = submitUpdates(messages, input).messages
       /\ input' = submitUpdates(messages, input).input
       /\ pageIsLoading' = submitUpdates(messages, input).isLoading
       /\ pending' = Append(pending, Sent(Trim(input)))
       /\ requests' = requests + 1
       /\ lastSubmit' = "accepted"
       /\ messageCards' = messageCardStates(submitUpdates(messages, input).messages, messageCards)

\* Enter without Shift in the textarea, which takes keys only while enabled.
PressEnter ==
  /\ ~pageIsLoading
  /\ handleSubmit
  /\ UNCHANGED <<endpointVars, widgetVars>>

\* The form's submit event, from the send button or raised otherwise.
SubmitForm ==
  /\ handleSubmit
  /\ UNCHANGED <<endpointVars, widgetVars>>

\* A request of the page reaches the route handler, which runs to its first
\* return or to its fetch.
RequestArrives ==
  /\ \A j \in 1..Len(pending) : pending[j].stage # "handling"
  /\ \E i \in 1..Len(pending) :
       /\ pending[i].stage = "sent"
       /\ Handle(RequestOf(pending[i]))
       /\ pending' = [pending EXCEPT ![i].stage = "handling"]
  /\ UNCHANGED <<messages, input, pageIsLoading, requests, lastSubmit, messageCards,
                 widgetVars>>

\* The upstream fetch of the route handler settles.
UpstreamAnswers == SettleWith(AppUpstreamOutcomes) /\ UNCHANGED <<widgetVars, pageVars>>

\* The route handler's response reaches the page: await fetch resolves.
ResponseArrives ==
  /\ pc = "done"
  /\ \E i \in 1..Len(pending) :
       /\ pending[i].stage = "handling"
       /\ pending' = [pending EXCEPT ![i].stage = "json",
                                     ![i].response = FetchResponse(resp)]
  /\ UNCHANGED <<messages, input, pageIsLoading, requests, lastSubmit, messageCards,
                 endpointVars, widgetVars>>

\* Something between the page and the route handler answers in its place:
\* await fetch resolves with a response the handler never wrote.
GatewayAnswers ==
  /\ \E i \in 1..Len(pending) :
       /\ pending[i].stage = "sent"
       /\ \E r \in GatewayResponses :
            pending' = [pending EXCEPT ![i].stage = "json", ![i].response = r]
  /\ UNCHANGED <<messages, input, pageIsLoading, requests, lastSubmit, messageCards,
                 endpointVars, widgetVars>>

\* handleSubmit from a settled await to its end: the message of the try or of
\* the catch block is appended and finally clears isLoading.
Settles(i, m) ==
  /\ messages' = settleUpdates(messages, m).messages
  /\ pageIsLoading' = settleUpdates(messages, m).isLoading
  /\ pending' = Remove(pending, i)
  /\ messageCards' = messageCardStates(settleUpdates(messages, m).messages, messageCards)
  /\ UNCHANGED <<input, requests, lastSubmit, endpointVars, widgetVars>>

\* await fetch rejects: the request never got an answer.
FetchRejects ==
  \E i \in 1..Len(pending) :
    /\ pending[i].stage = "sent"
    /\ \E t \in Thrown : Settles(i, errorMessage(t))

\* await response.json() settles and handleSubmit runs to its end.
JsonSettles ==
  \E i \in 1..Len(pending) :
    /\ pending[i].stage = "json"
    /\ Settles(i, Completed(pending[i].fd, pending[i].response))

\* The user clicks the toggle button of the i-th card of the k-th message.
ToggleMessageBreakdown(k, i) ==
  /\ toggleShown(messages[k].mealData.loggedMeals[i])
  /\ messageCards' = [messageCards EXCEPT ![k] = toggled(messageCards[k], i)]
  /\ UNCHANGED <<messages, input, pageIsLoading, pending, requests, lastSubmit,
                 endpointVars, widgetVars>>

PageNext ==
  \/ \E k \in 1..Len(messageCards) :
       \E i \in 1..Len(messageCards[k]) : ToggleMessageBreakdown(k, i)
  \/ \E text \in Texts : Type(text)
  \/ PressEnter
  \/ SubmitForm
  \/ FetchRejects
  \/ GatewayAnswers
  \/ JsonSettles

\* The page and the route handler it posts to.
AppNext ==
  \/ PageNext
  \/ RequestArrives
  \/ UpstreamAnswers
  \/ ResponseArrives

Next == EndpointNext \/ SecondNext \/ WidgetNext \/ AppNext

Spec == Init /\ [][Next]_vars

\* The route handler alone, and the widget alone.
SpecEndpoint == Init /\ [][EndpointNext]_vars

\* Both POST handlers that route.ts holds, a request going to either.
SpecBothPosts == Init /\ [][EndpointNext \/ SecondNext]_vars

InitWidget == Init /\ apiKey = "sk-key"

SpecWidget == InitWidget /\ [][WidgetNext]_vars

\* The web page talking to the route handler.
SpecApp == Init /\ [][AppNext]_vars

\* The same, every await of a request in flight settling in the end: the fetch
\* of the page resolves or rejects, the route handler's own fetch settles, and
\* the continuation of a settled await runs.
SpecAppFair ==
  /\ Init /\ [][AppNext]_vars
  /\ WF_vars(RequestArrives)
  /\ WF_vars(UpstreamAnswers)
  /\ WF_vars(ResponseArrives)
  /\ WF_vars(JsonSettles)

\* A document is the widget's frame or the web page, never both: Macros has
\* not mounted while the page runs, and WebPage has not while the widget runs.
MacrosUnmounted == toolOutput = Null /\ isLoading /\ effectPending /\ showBreakdown = <<>>

WebPageUnmounted ==
  /\ messages = <<>> /\ input = "" /\ ~pageIsLoading
  /\ pending = <<>> /\ requests = 0 /\ lastSubmit = "none"
  /\ messageCards = <<>>
  /\ pc = "idle"

ViewNext ==
  \/ WebPageUnmounted /\ WidgetNext
  \/ MacrosUnmounted /\ AppNext

\* Either user interface, each in a document of its own.
SpecViews == Init /\ [][ViewNext]_vars

\* --------------------------------------------------- arithmetic of the claims
\* The sum of field f of o[key] over the items, a missing value counting as 0.
RECURSIVE SumField(_, _, _)
SumField(items, key, f) ==
  IF Len(items) = 0 THEN 0
  ELSE (IF key \in DOMAIN items[1] /\ f \in DOMAIN items[1][key] THEN items[1][key][f] ELSE 0)
         + SumField(Tail(items), key, f)

\* round(x): the integer r with r - 1/2 <= x < r + 1/2.
Nearest(x) ==
  CHOOSE r \in { k * Scale : k \in ((x \div Scale) - 1)..((x \div Scale) + 1) } :
    2 * r - Scale <= 2 * x /\ 2 * x < 2 * r + Scale

NonEmptyIngredients(meal) == "ingredients" \in DOMAIN meal /\ meal.ingredients # <<>>

IsErrorBody(body) == DOMAIN body = {"error"} /\ body.error \in STRING

IsDataBody(body) == DOMAIN body = {"dailyTotals", "loggedMeals"}

\* The fetch settled with a 2xx status and a body the handler can parse.
Parsed(u) ==
  /\ u.kind = "ok"
  /\ u.body.json = "object"
  /\ "choices" \in DOMAIN u.body.value
  /\ u.body.value.choices.parse = "object"

\* ... whose content has dailyTotals and a loggedMeals array.
WellFormed(u) ==
  /\ Parsed(u)
  /\ {"dailyTotals", "loggedMeals"} \subseteq DOMAIN u.body.value.choices.data
  /\ u.body.value.choices.mealsIsArray

UpstreamData == upstream.body.value.choices.data

\* POST answered a well-formed upstream body with 200 and meal data.
Answered ==
  /\ pc = "done"
  /\ WellFormed(upstream)
  /\ resp.status = 200
  /\ IsDataBody(resp.body)
  /\ Len(resp.body.loggedMeals) = Len(UpstreamData.loggedMeals)

\* ------------------------------------------------------------------- claims
\* C1: after the correction pass every meal with at least one ingredient has, in
\* each of the four fields of its total_nutrients, round(sum of that field over
\* its ingredients), whatever total the upstream reported; a missing value is 0.
C1_MealTotalsAreRoundedSums ==
  (pc = "done" /\ WellFormed(upstream)) =>
    /\ Answered
    /\ \A i \in 1..Len(UpstreamData.loggedMeals) :
         NonEmptyIngredients(UpstreamData.loggedMeals[i]) =>
           /\ "total_nutrients" \in DOMAIN resp.body.loggedMeals[i]
           /\ resp.body.loggedMeals[i].total_nutrients =
                [f \in Fields |->
                   Nearest(SumField(UpstreamData.loggedMeals[i].ingredients, "nutrients", f))]

\* A meal of two ingredients, one of them without some value, whose reported
\* total is not the rounded sum, was answered.
C1_Witness ==
  /\ Answered
  /\ \E i \in 1..Len(UpstreamData.loggedMeals) :
       LET m == UpstreamData.loggedMeals[i] IN
         /\ "ingredients" \in DOMAIN m /\ Len(m.ingredients) = 2
         /\ \E j \in 1..2 : "nutrients" \in DOMAIN m.ingredients[j]
                              /\ DOMAIN m.ingredients[j].nutrients # Fields
         /\ "total_nutrients" \in DOMAIN m
         /\ m.total_nutrients # resp.body.loggedMeals[i].total_nutrients
         /\ SumField(m.ingredients, "nutrients", "calories") % Scale # 0

\* C2: each field of the response's dailyTotals is round(sum of that field over
\* the total_nutrients of the corrected meals), whatever the upstream reported.
C2_DailyTotalsAreRoundedSums ==
  (pc = "done" /\ WellFormed(upstream)) =>
    /\ Answered
    /\ resp.body.dailyTotals =
         [f \in Fields |-> Nearest(SumField(resp.body.loggedMeals, "total_nutrients", f))]

\* Two meals were answered, their totals summing to a fraction, with daily
\* totals other than the ones the upstream reported.
C2_Witness ==
  /\ Answered
  /\ Len(resp.body.loggedMeals) = 2
  /\ SumField(resp.body.loggedMeals, "total_nutrients", "calories") % Scale # 0
  /\ resp.body.dailyTotals # UpstreamData.dailyTotals

\* C3: the correction pass applied to its own output {dailyTotals, loggedMeals}
\* yields that output again.
C3_CorrectionIsIdempotent ==
  (pc = "done" /\ WellFormed(upstream)) =>
    /\ Answered
    /\ Correct(resp.body) = resp.body

\* The answer holds a meal with fractional ingredient values and a meal with
\* no ingredients and a fractional reported total.
C3_Witness ==
  /\ Answered
  /\ \E i, j \in 1..Len(UpstreamData.loggedMeals) :
       /\ NonEmptyIngredients(UpstreamData.loggedMeals[i])
       /\ SumField(UpstreamData.loggedMeals[i].ingredients, "nutrients", "calories") % Scale # 0
       /\ ~NonEmptyIngredients(UpstreamData.loggedMeals[j])
       /\ SumField(<<UpstreamData.loggedMeals[j]>>, "total_nutrients", "calories") % Scale # 0
  /\ Correct(resp.body) = resp.body

\* C4: a meal whose ingredient list is empty or absent is returned as received,
\* its reported total unrounded, and that reported total is what is added into
\* dailyTotals.
C4_EmptyMealsPassThrough ==
  (pc = "done" /\ WellFormed(upstream)) =>
    /\ Answered
    /\ \A i \in 1..Len(UpstreamData.loggedMeals) :
         ~NonEmptyIngredients(UpstreamData.loggedMeals[i]) =>
           resp.body.loggedMeals[i] = UpstreamData.loggedMeals[i]
    /\ resp.body.dailyTotals =
         [f \in Fields |->
            Nearest(SumField(
              [i \in 1..Len(UpstreamData.loggedMeals) |->
                 LET m == UpstreamData.loggedMeals[i] IN
                   IF NonEmptyIngredients(m)
                   THEN [total_nutrients |->
                           [g \in Fields |-> Nearest(SumField(m.ingredients, "nutrients", g))]]
                   ELSE m],
              "total_nutrients", f))]

\* A meal with an empty ingredient list and a fractional reported total was
\* answered next to a meal with ingredients.
C4_Witness ==
  /\ Answered
  /\ \E i, j \in 1..Len(UpstreamData.loggedMeals) :
       LET m == UpstreamData.loggedMeals[i] IN
         /\ "ingredients" \in DOMAIN m /\ m.ingredients = <<>>
         /\ "total_nutrients" \in DOMAIN m
         /\ m.total_nutrients.calories % Scale # 0
         /\ resp.body.loggedMeals[i] = m
         /\ NonEmptyIngredients(UpstreamData.loggedMeals[j])

\* The request body is JSON whose foodDescription is missing or empty.
DescriptionMissingOrEmpty ==
  /\ req.json = "object"
  /\ ("foodDescription" \in DOMAIN req.value => req.value.foodDescription = "")

\* C5: a request whose foodDescription is missing or empty is answered with 400
\* and the body { error: "Food description is required" }.
C5_MissingDescriptionIs400 ==
  DescriptionMissingOrEmpty =>
    /\ pc = "done"
    /\ resp = [status |-> 400, body |-> [error |-> "Food description is required"]]

\* An empty foodDescription was answered while the credential is set.
C5_Witness ==
  /\ pc = "done"
  /\ apiKey # ""
  /\ req.json = "object"
  /\ "foodDescription" \in DOMAIN req.value /\ req.value.foodDescription = ""
  /\ resp.status = 400

\* C6, as claimed: with the credential unset every request is answered with 500
\* and an { error } body, a request without foodDescription included.
C6_UnsetKeyAlways500 ==
  (apiKey = "" /\ pc = "done") => (resp.status = 500 /\ IsErrorBody(resp.body))

\* C6, amended: with the credential unset every request is answered without an
\* upstream call and with an { error } body: with 400 when its foodDescription
\* is missing or empty, with 500 otherwise.
C6_UnsetKeyNeverCallsUpstream ==
  (apiKey = "" /\ req # NoRequest) =>
    /\ pc = "done"
    /\ calls = 0
    /\ IsErrorBody(resp.body)
    /\ resp.status = IF DescriptionMissingOrEmpty THEN 400 ELSE 500

\* A request with a foodDescription was answered 500 for want of the credential.
C6_Witness ==
  /\ apiKey = ""
  /\ pc = "done"
  /\ req.json = "object" /\ ~DescriptionMissingOrEmpty
  /\ resp = [status |-> 500, body |-> [error |-> "OpenAI API key not configured"]]

\* C7, as claimed: a non-2xx upstream status, whatever it is, is answered with
\* 500 and a body { error: string }.
C7_UpstreamFailureIs500 ==
  (pc = "done" /\ upstream.kind = "status") =>
    (resp.status = 500 /\ IsErrorBody(resp.body))

\* C7, amended: a non-2xx upstream status is answered with a body
\* { error: string } and with the upstream's own status when the upstream's
\* error body is a JSON object, with 500 when it is not.
C7_UpstreamFailureKeepsStatus ==
  (pc = "done" /\ upstream.kind = "status") =>
    /\ IsErrorBody(resp.body)
    /\ resp.status = IF upstream.body.json = "object" THEN upstream.status ELSE 500
    /\ resp.status # 200

\* An upstream 429 with an error message was answered 429 with that message.
C7_Witness ==
  /\ pc = "done"
  /\ upstream.kind = "status" /\ upstream.status = 429
  /\ upstream.body.json = "object" /\ "error" \in DOMAIN upstream.body.value
  /\ resp = [status |-> 429, body |-> [error |-> "Rate limit reached"]]

\* The upstream answered 2xx with content that is not JSON, or that is an
\* object lacking dailyTotals or loggedMeals.
ContentMalformed ==
  /\ upstream.kind = "ok"
  /\ upstream.body.json = "object"
  /\ "choices" \in DOMAIN upstream.body.value
  /\ \/ upstream.body.value.choices.parse = "invalid"
     \/ /\ upstream.body.value.choices.parse = "object"
        /\ ~({"dailyTotals", "loggedMeals"} \subseteq DOMAIN UpstreamData)

\* C8: a 2xx upstream answer whose content is not parseable JSON, or lacks
\* dailyTotals or loggedMeals, is answered with 500 and a body
\* { error: string } that holds no meal data.
C8_MalformedContentIs500 ==
  (pc = "done" /\ ContentMalformed) =>
    (resp.status = 500 /\ IsErrorBody(resp.body))

\* Content with loggedMeals and no dailyTotals was answered 500.
C8_Witness ==
  /\ pc = "done"
  /\ ContentMalformed
  /\ upstream.body.value.choices.parse = "object"
  /\ "loggedMeals" \in DOMAIN UpstreamData
  /\ resp = [status |-> 500, body |-> [error |-> "Invalid response format from AI"]]

\* C9: every response is 200 with dailyTotals and loggedMeals and no error, or
\* a non-200 status with an error string only; a well-formed upstream body
\* gives the first shape, a non-2xx status and a malformed body the second.
C9_TwoResponseShapes ==
  pc = "done" =>
    /\ \/ resp.status = 200 /\ IsDataBody(resp.body)
       \/ resp.status # 200 /\ IsErrorBody(resp.body)
    /\ WellFormed(upstream) => resp.status = 200
    /\ upstream.kind = "status" => resp.status # 200
    /\ (upstream.kind = "ok" /\ upstream.body.json = "invalid") => resp.status # 200
    /\ ContentMalformed => resp.status # 200

\* A response of the second shape was given to an upstream body that is not JSON.
C9_Witness ==
  /\ pc = "done"
  /\ upstream.kind = "ok" /\ upstream.body.json = "invalid"
  /\ resp.status = 500 /\ IsErrorBody(resp.body)

\* C10: the reconciler takes the first of: result.structuredContent, the
\* payload's structuredContent, result, the payload itself if it has a
\* loggedMeals or dailyTotals key; an earlier shape wins over a later one.
C10_ExtractionOrder ==
  LET hasResult == toolOutput # Null /\ "result" \in DOMAIN toolOutput
                     /\ toolOutput.result # Null
      hasNested == hasResult /\ "structuredContent" \in DOMAIN toolOutput.result
                     /\ toolOutput.result.structuredContent # Null
      hasTop == toolOutput # Null /\ "structuredContent" \in DOMAIN toolOutput
                  /\ toolOutput.structuredContent # Null
      hasKeys == toolOutput # Null /\ DOMAIN toolOutput \cap {"loggedMeals", "dailyTotals"} # {}
  IN  /\ hasNested => rendered.mealData = toolOutput.result.structuredContent
      /\ (~hasNested /\ hasTop) => rendered.mealData = toolOutput.structuredContent
      /\ (~hasNested /\ ~hasTop /\ hasResult) => rendered.mealData = toolOutput.result
      /\ (~hasNested /\ ~hasTop /\ ~hasResult /\ hasKeys) => rendered.mealData = toolOutput
      /\ (~hasNested /\ ~hasTop /\ ~hasResult /\ ~hasKeys) => rendered.mealData = Null

\* A payload with all four shapes at once, each holding something else, was
\* rendered from its result.structuredContent.
C10_Witness ==
  /\ toolOutput # Null
  /\ {"result", "structuredContent", "loggedMeals"} \subseteq DOMAIN toolOutput
  /\ toolOutput.result # Null /\ toolOutput.structuredContent # Null
  /\ "structuredContent" \in DOMAIN toolOutput.result
  /\ toolOutput.result.structuredContent # Null
  /\ toolOutput.result.structuredContent # toolOutput.structuredContent
  /\ toolOutput.result.structuredContent # toolOutput.result
  /\ toolOutput.structuredContent # toolOutput
  /\ rendered.mealData = toolOutput.result.structuredContent

CarriesMeals(o) ==
  /\ o # Null /\ "loggedMeals" \in DOMAIN o
  /\ o.loggedMeals # Null /\ o.loggedMeals.array # <<>>

\* o carries a non-empty error.
CarriesError(o) == o # Null /\ "error" \in DOMAIN o /\ o.error # ""

\* o carries the raw description.
CarriesDescription(o) == o # Null /\ "foodDescription" \in DOMAIN o

\* C12: once the effect has run, a payload that carries a foodDescription, at
\* its top level or in the object extracted from it, and carries no non-empty
\* loggedMeals and no error, is shown as the loading view.
C12_DescriptionMeansLoading ==
  (/\ ~effectPending
   /\ CarriesDescription(toolOutput) \/ CarriesDescription(rendered.mealData)
   /\ ~CarriesMeals(toolOutput) /\ ~CarriesMeals(rendered.mealData)
   /\ ~CarriesError(toolOutput) /\ ~CarriesError(rendered.mealData))
    => rendered.view = "loading"

\* C13 as stated: once the effect has run, every payload is shown as one of
\* three outcomes: the meal cards, the error panel or the loading view.
C13_ThreeOutcomes ==
  ~effectPending => rendered.view \in {"cards", "error", "loading"}

\* C13, amended: once the effect has run, every payload is shown as exactly
\* one of four outcomes: the error panel when the extracted object or the
\* payload carries an error; else the meal cards when the extracted object
\* carries meals; else the loading view when the payload is null or carries a
\* top-level foodDescription without top-level meals; else "No meal data
\* available".
C13_FourOutcomes ==
  LET failed == CarriesError(rendered.mealData) \/ CarriesError(toolOutput)
      usable == CarriesMeals(rendered.mealData)
      waiting == toolOutput = Null
                   \/ (CarriesDescription(toolOutput) /\ ~CarriesMeals(toolOutput))
  IN  ~effectPending =>
        rendered.view = (IF failed THEN "error"
                         ELSE IF usable THEN "cards"
                         ELSE IF waiting THEN "loading"
                         ELSE "empty")

\* A payload with no error, no meals and no description has been shown as
\* "No meal data available".
C13_Witness ==
  /\ ~effectPending /\ toolOutput # Null
  /\ ~CarriesError(rendered.mealData) /\ ~CarriesError(toolOutput)
  /\ ~CarriesMeals(rendered.mealData) /\ ~CarriesDescription(toolOutput)
  /\ rendered.view = "empty"

\* C14: no partial results beside an error. A widget whose extracted object
\* or payload carries a non-empty error renders the error panel and nothing
\* else, whatever meals the payload has and whether or not isLoading is set;
\* an assistant message of the web page whose mealData carries an error is
\* rendered as the error panel, not as meal cards.
C14_ErrorAlone ==
  /\ (CarriesError(rendered.mealData) \/ CarriesError(toolOutput))
       => rendered.view = "error"
  /\ \A i \in 1..Len(messages) :
       (messages[i].role = "assistant" /\ CarriesError(messages[i].mealData))
         => MessageView(messages[i]) = "error"

\* The widget shows the error panel for a payload whose extracted object
\* has both an error and meals, while isLoading is still set.
C14_Witness ==
  /\ CarriesError(rendered.mealData) /\ CarriesMeals(rendered.mealData)
  /\ isLoading /\ rendered.view = "error"

\* The last message of the page.
LastMessage == messages[Len(messages)]

\* The step in which the i-th pending fetch call, its response read, ends
\* handleSubmit.
ReadAndSettled(i) == pending[i].stage = "json" /\ pending' = Remove(pending, i)

\* C15: when the response to the page is non-2xx with a JSON body whose error
\* is a non-empty string e, the step that ends handleSubmit appends an
\* assistant message whose mealData.error is e itself, which is rendered as
\* the error panel.
C15_EndpointErrorVerbatim ==
  [][\A i \in 1..Len(pending) :
       (/\ ReadAndSettled(i)
        /\ ~pending[i].response.ok /\ pending[i].response.json = "value"
        /\ CarriesError(pending[i].response.data))
         => /\ Len(messages') = Len(messages) + 1
            /\ messages'[Len(messages')].role = "assistant"
            /\ messages'[Len(messages')].mealData = [error |-> pending[i].response.data.error]
            /\ MessageView(messages'[Len(messages')]) = "error"]_vars

\* The route handler answered 429 with the upstream's message, and the page's
\* last message carries that message as its error.
C15_Witness ==
  /\ pc = "done" /\ resp.status = 429 /\ pending = <<>>
  /\ messages # <<>> /\ LastMessage.role = "assistant"
  /\ LastMessage.mealData = [error |-> "Rate limit reached"]
  /\ MessageView(LastMessage) = "error"

\* The step appends the user's message: handleSubmit accepted a submission.
Accepted ==
  /\ Len(messages') = Len(messages) + 1
  /\ messages'[Len(messages')].role = "user"

\* The user's messages so far.
UserMessages == { i \in 1..Len(messages) : messages[i].role = "user" }

\* C16: at most one request of the page is in flight at any time; while one
\* is, no step issues a request, and no step appends a message but the one
\* that ends that request; and a step that accepts a submission issues
\* exactly one request, the one for the message it appends.
C16_OneRequestInFlight ==
  /\ [](Len(pending) <= 1)
  /\ [][pending # <<>> =>
          /\ requests' = requests
          /\ Len(pending') <= Len(pending)
          /\ (messages' # messages => Len(pending') < Len(pending))]_vars
  /\ [][Accepted =>
          /\ requests' = requests + 1
          /\ pending' = Append(pending, Sent(messages'[Len(messages')].content))]_vars

\* A submit event came while the one request was in flight and was ignored.
C16_Witness ==
  /\ Len(pending) = 1 /\ requests = 1
  /\ lastSubmit = "ignored"
  /\ Len(messages) = 1 /\ LastMessage.role = "user"

\* C17: isLoading is set by the step that accepts a submission and stays set
\* while the request is in flight; the step that clears it is the step that
\* ends the request and appends its assistant message.
C17_LoadingUntilSettled ==
  /\ [](pending # <<>> => pageIsLoading)
  /\ [][Accepted => pageIsLoading']_vars
  /\ [][(pageIsLoading /\ ~pageIsLoading') =>
          /\ Len(pending') < Len(pending)
          /\ Len(messages') = Len(messages) + 1
          /\ messages'[Len(messages')].role = "assistant"]_vars

\* The response has arrived and its body is being read: isLoading is still
\* set and the assistant message is not there yet.
C17_Witness ==
  /\ Len(pending) = 1 /\ pending[1].stage = "json"
  /\ pageIsLoading
  /\ messages # <<>> /\ LastMessage.role = "user"

\* C19: nothing is retried. One POST makes at most one upstream call, and
\* none once its fetch has settled; the page issues a request only in the step
\* that accepts a submission, one request per accepted submission, whatever
\* the outcome of the requests before.
C19_NothingRetried ==
  /\ [](calls <= 1)
  /\ [][pc = "fetching" => calls' = calls]_vars
  /\ [](requests = Cardinality(UserMessages))
  /\ [][requests' # requests => (Accepted /\ requests' = requests + 1)]_vars

\* The upstream call of the one request failed and the page shows the error:
\* one upstream call was made and one request issued.
C19_Witness ==
  /\ pc = "done" /\ upstream.kind = "reject" /\ calls = 1
  /\ pending = <<>> /\ requests = 1
  /\ Len(messages) = 2 /\ MessageView(LastMessage) = "error"

\* C18: a thrown value that is no Error is surfaced as the one generic message
\* everywhere: in the route handler's 500 body, in the MCP tool's
\* structuredContent.error, and in the error panel of the page, whose
\* message for such a failure reads "Error: " and the generic message.
C18_OneGenericMessage ==
  /\ (pc = "done" /\ upstream.kind = "reject" /\ ~upstream.thrown.isError)
       => resp = Json([error |-> GenericMessage], 500)
  /\ \A t \in Thrown :
       ~t.isError => analyzeFoodCaught(t).structuredContent.error = GenericMessage
  /\ \A i \in 1..Len(messages) :
       (messages[i].role = "assistant" /\ messages[i].content = "Error: " \o GenericMessage)
         => /\ MessageView(messages[i]) = "error"
            /\ messages[i].mealData.error = GenericMessage

\* C20: every meal card of the widget, for a meal with at least one
\* ingredient, shows in each field the rounded sum of the ingredients'
\* values, whatever total_nutrients the payload gave the meal.
C20_WidgetTotalsAreRoundedSums ==
  rendered.view = "cards" =>
    \A i \in 1..Len(rendered.meals) :
      NonEmptyIngredients(rendered.meals[i]) =>
        \A f \in Fields :
          rendered.cards[i][f] = Nearest(SumField(rendered.meals[i].ingredients, "nutrients", f))

\* r is the whole number x rounds to when a tie goes up: r - 1/2 <= x < r + 1/2.
RoundsTo(x, r) == r % Scale = 0 /\ 2 * r - Scale <= 2 * x /\ 2 * x < 2 * r + Scale

\* The sum over the items of each value of field f rounded by itself.
RECURSIVE SumOfRounded(_, _, _)
SumOfRounded(items, key, f) ==
  IF Len(items) = 0 THEN 0
  ELSE Nearest(IF key \in DOMAIN items[1] /\ f \in DOMAIN items[1][key]
               THEN items[1][key][f] ELSE 0)
         + SumOfRounded(Tail(items), key, f)

\* C22: rounding is applied once per field, after summation. Each field of a
\* corrected meal total is the whole number the exact sum of that field over
\* the unrounded ingredient values rounds to, a tie going up, and each field
\* of dailyTotals is the whole number the exact sum of the meals' totals
\* rounds to; no field depends on another field's values.
C22_RoundedOnceAfterSum ==
  (pc = "done" /\ WellFormed(upstream)) =>
    /\ Answered
    /\ \A f \in Fields :
         /\ \A i \in 1..Len(UpstreamData.loggedMeals) :
              NonEmptyIngredients(UpstreamData.loggedMeals[i]) =>
                /\ "total_nutrients" \in DOMAIN resp.body.loggedMeals[i]
                /\ RoundsTo(SumField(UpstreamData.loggedMeals[i].ingredients, "nutrients", f),
                            resp.body.loggedMeals[i].total_nutrients[f])
         /\ RoundsTo(SumField(resp.body.loggedMeals, "total_nutrients", f),
                     resp.body.dailyTotals[f])

\* A meal was answered whose ingredients' calories sum to exactly one half
\* more than a whole number: the total is the next whole number, and it is
\* not the sum of the ingredients' calories rounded one by one.
C22_Witness ==
  /\ Answered
  /\ \E i \in 1..Len(UpstreamData.loggedMeals) :
       LET m == UpstreamData.loggedMeals[i]
           sum == SumField(m.ingredients, "nutrients", "calories")
       IN  /\ NonEmptyIngredients(m)
           /\ (2 * sum) % (2 * Scale) = Scale
           /\ 2 * resp.body.loggedMeals[i].total_nutrients.calories = 2 * sum + Scale
           /\ resp.body.loggedMeals[i].total_nutrients.calories
                # SumOfRounded(m.ingredients, "nutrients", "calories")

\* The meal data that the ingredient values, and the reported totals of the
\* meals without ingredients, determine: the reported dailyTotals and the
\* reported totals of meals with ingredients play no part in it.
Determined(data) ==
  LET determinedMeals ==
        [i \in 1..Len(data.loggedMeals) |->
           LET m == data.loggedMeals[i] IN
             IF NonEmptyIngredients(m)
             THEN [k \in DOMAIN m \cup {"total_nutrients"} |->
                     IF k = "total_nutrients"
                     THEN [f \in Fields |-> Nearest(SumField(m.ingredients, "nutrients", f))]
                     ELSE m[k]]
             ELSE m]
  IN  [dailyTotals |-> [f \in Fields |->
                          Nearest(SumField(determinedMeals, "total_nutrients", f))],
       loggedMeals |-> determinedMeals]

\* C23: every 200 response of POST /api/analyze-food, of either POST that
\* route.ts holds, answers an upstream body with dailyTotals and a loggedMeals
\* array and is what the ingredient values and the reported totals of the
\* meals without ingredients determine; so two upstream bodies that differ
\* only in the other reported totals get the same response, and no reported
\* total of a meal with ingredients reaches the response.
C23_TotalsFromIngredientsOnly ==
  (pc = "done" /\ resp.status = 200) =>
    /\ WellFormed(upstream)
    /\ resp.body = Determined(UpstreamData)

\* The keys of a meal other than its total.
KeptKeys(meal) == DOMAIN meal \ {"total_nutrients"}

\* C24: the correction pass changes nothing but totals. The response has the
\* upstream's meals, as many and in the same order; each meal has the keys it
\* came with and, under every key but total_nutrients, the value it came
\* with, the ingredient list with its unrounded values included; a meal
\* without ingredients is returned whole.
C24_OnlyTotalsChange ==
  (pc = "done" /\ WellFormed(upstream)) =>
    /\ Answered
    /\ \A i \in 1..Len(UpstreamData.loggedMeals) :
         LET m == UpstreamData.loggedMeals[i]
             r == resp.body.loggedMeals[i]
         IN  /\ KeptKeys(r) = KeptKeys(m)
             /\ \A k \in KeptKeys(m) : r[k] = m[k]
             /\ ("total_nutrients" \in DOMAIN m => "total_nutrients" \in DOMAIN r)
             /\ ~NonEmptyIngredients(m) => r = m

\* Two meals that differ were answered in their order: the first with a size
\* and ingredients with brand, serving and fractional values, its total
\* replaced and everything else kept.
C24_Witness ==
  /\ Answered
  /\ Len(UpstreamData.loggedMeals) = 2
  /\ UpstreamData.loggedMeals[1] # UpstreamData.loggedMeals[2]
  /\ LET m == UpstreamData.loggedMeals[1]
         r == resp.body.loggedMeals[1]
     IN  /\ {"meal_size", "ingredients", "total_nutrients"} \subseteq DOMAIN m
         /\ m.ingredients # <<>>
         /\ {"brand", "serving_info", "nutrients"} \subseteq DOMAIN m.ingredients[1]
         /\ m.ingredients[1].nutrients.calories % Scale # 0
         /\ r.total_nutrients # m.total_nutrients
         /\ r.meal_size = m.meal_size /\ r.ingredients = m.ingredients

\* The request body is JSON and has a non-empty foodDescription.
DescriptionGiven ==
  /\ req.json = "object"
  /\ "foodDescription" \in DOMAIN req.value /\ req.value.foodDescription # ""

\* C25: POST reads the body, then checks foodDescription, then the
\* credential, then calls the upstream. A body that cannot be read is
\* answered before any check; a missing or empty description is answered 400
\* whether or not the credential is set; an unset credential is answered 500
\* only for a request that has a description; and an upstream call has been
\* made exactly for the requests that passed both checks.
C25_ChecksInOrder ==
  pc # "idle" =>
    /\ req.json # "object" => (pc = "done" /\ resp.status = 500 /\ calls = 0)
    /\ DescriptionMissingOrEmpty =>
         (pc = "done" /\ resp = Json([error |-> "Food description is required"], 400)
            /\ calls = 0)
    /\ (DescriptionGiven /\ apiKey = "") =>
         (pc = "done" /\ resp = Json([error |-> "OpenAI API key not configured"], 500)
            /\ calls = 0)
    /\ calls = (IF DescriptionGiven /\ apiKey # "" THEN 1 ELSE 0)

\* With the credential unset, a request without a description was answered
\* 400 and no upstream call was made.
C25_Witness ==
  /\ pc = "done" /\ apiKey = ""
  /\ req.json = "object" /\ "foodDescription" \notin DOMAIN req.value
  /\ resp.status = 400 /\ calls = 0

\* Something threw while POST ran: reading the request body, the fetch,
\* reading the upstream's body, reaching into choices, parsing the content,
\* or mapping a loggedMeals that is no array.
Threw ==
  \/ req.json \in {"invalid", "null"}
  \/ upstream.kind = "reject"
  \/ upstream.kind = "status" /\ upstream.body.json \in {"invalid", "null"}
  \/ /\ upstream.kind = "ok"
     /\ \/ upstream.body.json = "invalid"
        \/ "choices" \notin DOMAIN upstream.body.value
        \/ upstream.body.value.choices.parse \in {"invalid", "null"}
        \/ /\ {"dailyTotals", "loggedMeals"} \subseteq DOMAIN UpstreamData
           /\ ~upstream.body.value.choices.mealsIsArray

\* C26: POST is total. Whatever the request and whatever the upstream does,
\* the handler ends with a response, a status and a body that is meal data or
\* { error: string }; once the fetch is pending the next step of the handler
\* is that response; and whenever something threw on the way, the response is
\* 500 with a body { error: string }.
C26_HandlerIsTotal ==
  /\ [](pc = "done" =>
          /\ resp # NoResponse
          /\ resp.status >= 200 /\ resp.status <= 599
          /\ IsErrorBody(resp.body) \/ IsDataBody(resp.body)
          /\ Threw => (resp.status = 500 /\ IsErrorBody(resp.body)))
  /\ [][pc = "fetching" => (pc' = "done" /\ resp' # NoResponse)]_vars
  /\ [][(pc # "fetching" /\ req' # req) => (pc' = "fetching" \/ resp' # NoResponse)]_vars

\* A loggedMeals that is no array was answered 500 with the TypeError's
\* message.
C26_Witness ==
  /\ pc = "done" /\ upstream.kind = "ok" /\ upstream.body.json = "object"
  /\ "choices" \in DOMAIN upstream.body.value
  /\ upstream.body.value.choices.parse = "object"
  /\ {"dailyTotals", "loggedMeals"} \subseteq DOMAIN UpstreamData
  /\ ~upstream.body.value.choices.mealsIsArray
  /\ resp = Json([error |-> TypeError.message], 500)

\* C27: an upstream body with dailyTotals and an empty loggedMeals array is a
\* success: it is answered 200 with no meals and with dailyTotals of 0 in all
\* four fields, whatever dailyTotals the upstream reported.
C27_NoMealsIsSuccess ==
  (pc = "done" /\ WellFormed(upstream) /\ UpstreamData.loggedMeals = <<>>) =>
    resp = Json([dailyTotals |-> [f \in Fields |-> 0], loggedMeals |-> <<>>], 200)

\* An upstream body with no meals and fractional dailyTotals was answered 200
\* with zeros.
C27_Witness ==
  /\ pc = "done" /\ WellFormed(upstream)
  /\ UpstreamData.loggedMeals = <<>>
  /\ UpstreamData.dailyTotals.calories % Scale # 0
  /\ resp.status = 200
  /\ resp.body.dailyTotals.calories = 0 /\ resp.body.loggedMeals = <<>>

\* C21: every accepted submission terminates. From a state in which the
\* n-th request is in flight the page reaches a state in which nothing is in
\* flight, isLoading is false and the log holds n user messages and n
\* assistant messages, the last of them the answer to that request; and the
\* page never stays with isLoading set.
C21_SubmissionTerminates ==
  /\ \A n \in 1..MaxSubmissions :
       (pending # <<>> /\ requests = n)
         ~> (/\ pending = <<>> /\ ~pageIsLoading
             /\ Len(messages) = 2 * n
             /\ LastMessage.role = "assistant")
  /\ pageIsLoading ~> ~pageIsLoading

\* A submission ended, by a response whose body was not JSON, with isLoading
\* false and one assistant message, an error.
C21_Witness ==
  /\ pending = <<>> /\ ~pageIsLoading
  /\ requests = 1 /\ Len(messages) = 2
  /\ LastMessage.role = "assistant"
  /\ LastMessage.mealData = [error |-> SyntaxError.message]

\* C29: the message log is append-only and alternates. The messages at odd
\* places are the user's and those at even places the assistant's, the log
\* ending with a user message exactly while a request is in flight; a step
\* changes the log only by appending one message; the assistant message
\* appended when a request ends follows the user message that request was
\* sent for; and with an empty or whitespace-only input no step appends a
\* user message or issues a request.
C29_LogAlternates ==
  /\ [](/\ \A i \in 1..Len(messages) :
             messages[i].role = (IF i % 2 = 1 THEN "user" ELSE "assistant")
         /\ Len(messages) = 2 * requests - Len(pending))
  /\ [][messages' # messages =>
          /\ Len(messages') = Len(messages) + 1
          /\ SubSeq(messages', 1, Len(messages)) = messages]_vars
  /\ [][\A i \in 1..Len(pending) :
          (pending' = Remove(pending, i) /\ Len(messages') = Len(messages) + 1)
            => /\ messages'[Len(messages')].role = "assistant"
               /\ LastMessage.role = "user"
               /\ LastMessage.content = pending[i].fd]_vars
  /\ [][Trim(input) = "" => (~Accepted /\ requests' = requests)]_vars

\* A submit event with a whitespace-only input was ignored: nothing was
\* appended and no request was ever issued.
C29_Witness ==
  /\ input = " " /\ lastSubmit = "ignored"
  /\ messages = <<>> /\ requests = 0 /\ pending = <<>>

\* C29's second case: two exchanges are in the log, the first answered with
\* meal data and the second with an error.
C29_WitnessLog ==
  /\ Len(messages) = 4 /\ pending = <<>>
  /\ MessageView(messages[2]) = "cards" /\ MessageView(messages[4]) = "error"

\* The placeholders of the two analyze_food handlers, as the host hands them
\* to the widget unwrapped.
Placeholders ==
  { analyzeFood(fd).structuredContent : fd \in ToolInputs }
    \cup { analyzeFoodEarlier(fd).structuredContent : fd \in ToolInputs }

\* The widget holds a placeholder, its effect has run and it shows loading.
InPlaceholderLoading ==
  toolOutput \in Placeholders /\ ~effectPending /\ rendered.view = "loading"

\* The view Macros returns for a payload once its effect has run for it.
SettledView(out) == view(out, effectLoading(out))

\* out carries a non-empty meal list or an error, at its top level or in the
\* object extracted from it.
WithMealsOrError(out) ==
  \/ CarriesMeals(out) \/ CarriesMeals(mealData(out))
  \/ CarriesError(out) \/ CarriesError(mealData(out))

\* What the tool returns and what the widget does with it while the payload
\* stays: the structuredContent echoes foodDescription and holds no meals and
\* totals of 0 or null; the widget, its effect run, shows the loading view for
\* it and keeps showing it while the payload is unchanged.
PlaceholderKeepsLoading ==
  /\ [](\A fd \in ToolInputs :
          /\ analyzeFood(fd).structuredContent.foodDescription = fd
          /\ analyzeFood(fd).structuredContent.dailyTotals = ZeroTotals
          /\ analyzeFood(fd).structuredContent.loggedMeals = List(<<>>)
          /\ analyzeFoodEarlier(fd).structuredContent.foodDescription = fd
          /\ analyzeFoodEarlier(fd).structuredContent.dailyTotals = Null
          /\ analyzeFoodEarlier(fd).structuredContent.loggedMeals = Null)
  /\ [](~effectPending => rendered.view = SettledView(toolOutput))
  /\ []((toolOutput \in Placeholders /\ ~effectPending) => rendered.view = "loading")
  /\ [][(InPlaceholderLoading /\ toolOutput' = toolOutput)
          => rendered'.view = "loading"]_vars

\* C28 as stated: the analyze_food handler returns a placeholder that echoes
\* foodDescription and holds no meals; the widget that received it unwrapped
\* shows the loading view once its effect has run, keeps showing it while the
\* payload is unchanged, and a payload that arrives takes it out of the
\* loading view, at once or when the effect has run, only if that payload
\* carries a non-empty loggedMeals list or an error.
C28_LeavesOnMealsOrErrorOnly ==
  /\ PlaceholderKeepsLoading
  /\ [][(InPlaceholderLoading /\ toolOutput' # toolOutput)
          => /\ rendered'.view # "loading" => WithMealsOrError(toolOutput')
             /\ SettledView(toolOutput') # "loading" => WithMealsOrError(toolOutput')]_vars

\* C28 amended: as above, but the widget leaves the loading view on every
\* arriving payload other than null and a payload with a top-level
\* foodDescription and no meals: for the error panel when the payload carries
\* an error, for the cards when the extracted object carries a non-empty
\* loggedMeals list, and otherwise for "No meal data available".
C28_LeavesWhenPayloadChanges ==
  /\ PlaceholderKeepsLoading
  /\ [][(InPlaceholderLoading /\ toolOutput' # toolOutput)
          => /\ rendered'.view \in {"loading", "error"}
             /\ rendered'.view = "error" <=> error(toolOutput') # ""
             /\ SettledView(toolOutput') = "error" <=> error(toolOutput') # ""
             /\ SettledView(toolOutput') = "cards"
                  <=> (error(toolOutput') = "" /\ CarriesMeals(mealData(toolOutput')))
             /\ SettledView(toolOutput') = "empty"
                  <=> /\ error(toolOutput') = ""
                      /\ ~CarriesMeals(mealData(toolOutput'))
                      /\ toolOutput' # Null
                      /\ ~CarriesDescription(toolOutput')]_vars

\* The widget holds the placeholder of the tool, its effect has run and it
\* shows the loading view.
C28_Witness ==
  /\ toolOutput = analyzeFood("pizza").structuredContent
  /\ InPlaceholderLoading /\ isLoading

\* The meal the i-th card of the k-th message of the page shows.
MealOfCard(k, i) == messages[k].mealData.loggedMeals[i]

\* A step changes the state of the i-th card of the widget, the card staying.
WidgetCardChanges(i) ==
  /\ i <= Len(showBreakdown')
  /\ showBreakdown'[i] # showBreakdown[i]

\* A step changes the state of the i-th card of the k-th message of the page.
PageCardChanges(k, i) ==
  /\ k <= Len(messageCards') /\ i <= Len(messageCards'[k])
  /\ messageCards'[k][i] # messageCards[k][i]

\* C30: the expanded state is each card's own, in the widget and in the page.
\* A card that mounts is collapsed; a step that changes the state of one card
\* changes that of no other card, leaves every card mounted, and leaves the
\* loading flag and what else the component holds as they were; toggling a
\* card twice gives back the state it had; and a card shows its toggle button
\* and its breakdown only for a meal with more than one ingredient, so that
\* only the card of such a meal is ever toggled.
C30_CardStateIsLocal ==
  /\ [][\A i \in 1..Len(showBreakdown') :
          i > Len(showBreakdown) => ~showBreakdown'[i]]_vars
  /\ [][\A k \in 1..Len(messageCards') :
          k > Len(messageCards) => \A i \in 1..Len(messageCards'[k]) : ~messageCards'[k][i]]_vars
  /\ [][\A i \in 1..Len(showBreakdown) :
          WidgetCardChanges(i)
            => /\ Len(showBreakdown') = Len(showBreakdown)
               /\ \A j \in 1..Len(showBreakdown) :
                    j # i => showBreakdown'[j] = showBreakdown[j]
               /\ UNCHANGED <<toolOutput, isLoading, effectPending, rendered>>
               /\ hasMultipleIngredients(rendered.meals[i])]_vars
  /\ [][\A k \in 1..Len(messageCards) : \A i \in 1..Len(messageCards[k]) :
          PageCardChanges(k, i)
            => /\ Len(messageCards') = Len(messageCards)
               /\ \A l \in 1..Len(messageCards) :
                    /\ Len(messageCards'[l]) = Len(messageCards[l])
                    /\ \A j \in 1..Len(messageCards[l]) :
                         <<l, j>> # <<k, i>> => messageCards'[l][j] = messageCards[l][j]
               /\ UNCHANGED <<messages, input, pageIsLoading, pending, requests>>
               /\ hasMultipleIngredients(MealOfCard(k, i))]_vars
  /\ [](\A i \in 1..Len(showBreakdown) :
          /\ toggled(toggled(showBreakdown, i), i) = showBreakdown
          /\ toggleShown(rendered.meals[i]) <=> Len(rendered.meals[i].ingredients) > 1
          /\ breakdownShown(rendered.meals[i], showBreakdown[i])
               => Len(rendered.meals[i].ingredients) > 1)
  /\ [](\A k \in 1..Len(messageCards) :
          /\ Len(messageCards[k]) =
               (IF MessageView(messages[k]) = "cards"
                THEN Len(messages[k].mealData.loggedMeals) ELSE 0)
          /\ \A i \in 1..Len(messageCards[k]) :
               /\ toggled(toggled(messageCards[k], i), i) = messageCards[k]
               /\ toggleShown(MealOfCard(k, i)) <=> Len(MealOfCard(k, i).ingredients) > 1
               /\ breakdownShown(MealOfCard(k, i), messageCards[k][i])
                    => Len(MealOfCard(k, i).ingredients) > 1)
  /\ [](rendered.view = "cards" <=> showBreakdown # <<>>)

\* The page shows two messages with cards while no request is in flight; the
\* card of the second message's meal of two ingredients is expanded and that
\* of the first message's is collapsed.
C30_Witness ==
  /\ Len(messages) = 4 /\ ~pageIsLoading
  /\ messageCards[2] = <<FALSE, FALSE>>
  /\ messageCards[4] = <<FALSE, TRUE>>
  /\ breakdownShown(MealOfCard(4, 2), messageCards[4][2])
  /\ ~toggleShown(MealOfCard(4, 1))

\* The widget shows two cards, the second one expanded, and the first one,
\* for a meal of one ingredient, holds an expanded state it does not show.
C30_WitnessWidget ==
  /\ rendered.view = "cards" /\ ~isLoading
  /\ showBreakdown = <<TRUE, TRUE>>
  /\ ~breakdownShown(rendered.meals[1], showBreakdown[1])
  /\ breakdownShown(rendered.meals[2], showBreakdown[2])

====
